---- MODULE Spec2Model ----
(***************************************************************************)
(* A model of scientific-knowledge-search: the ingestion pipeline of       *)
(* src/ingest.py (chunk_text, is_useful_chunk, ingest_pdfs) and the        *)
(* structured extraction of src/app.py (extract_structured_data and the    *)
(* extraction button handler).                                             *)
(*                                                                         *)
(* A Python str is a sequence of one-character strings.  Each function of  *)
(* the program has one frame variable, a record whose fields carry the     *)
(* names of the function's locals plus pc, the position in its body.       *)
(***************************************************************************)
EXTENDS Integers, Sequences, FiniteSets, TLC

VARIABLES chunker, quality, ingest, collection, app, log

vars == <<chunker, quality, ingest, collection, app, log>>

\* The frame of a function that is not running in the specification at hand.
Idle == [pc |-> "idle"]

\* What has been observed of the ingestion runs so far: the batches handed to
\* collection.add in the current run, and the ids and the collection at the
\* end of each completed run.
NoLog == [batches |-> <<>>, runs |-> <<>>]

(***************************************************************************)
(* Bounds of the model                                                     *)
(***************************************************************************)
\* Longest text handed to chunk_text in SpecChunk.
MaxLen == 8
\* Largest chunk_size handed to chunk_text in SpecChunk.
MaxChunkSize == 5
\* Most whitespace characters before, and after, a text of SpecFilter.
MaxPad == 1
\* Most copies of one citation indicator in a text of SpecFilter.
MaxIndicatorCopies == 3
\* Most copies of 'http' or of 'doi' in a text of SpecFilter.
MaxLinkCopies == 4
\* Most PDF files in the directory of SpecIngest.
MaxDocs == 2
\* Most full batches of kept chunks in SpecFlush.
MaxBatches == 2
\* Most runs of ingest_pdfs on the directory in SpecIngest.
MaxRuns == 2

(***************************************************************************)
(* Python str primitives                                                   *)
(***************************************************************************)
Min(a, b) == IF a < b THEN a ELSE b

\* text[start:end] for 0 <= start <= end: the end is clipped to len(text).
Slice(text, start, end) == SubSeq(text, start + 1, Min(end, Len(text)))

\* The text made of n copies of the character c.
Rep(c, n) == [i \in 1..n |-> c]

\* All texts over the alphabet of at most n characters.
TextsUpTo(alphabet, n) == UNION {[1..k -> alphabet] : k \in 0..n}

(***************************************************************************)
(* chunk_text (src/ingest.py 45-56), one loop iteration per step           *)
(***************************************************************************)
\* The defaults of chunk_text's parameters.
DefaultChunkSize == 1000
DefaultOverlap == 200

\* Mutants of NextStart: the window advances one character too far; the
\* overlap is forgotten.
NextStartSkip(end, overlap) == end - overlap + 1
NextStartNoOverlap(end, overlap) == end

\* start = end - overlap
NextStart(end, overlap) == end - overlap

\* The frame of chunk_text(text, chunk_size, overlap) on entry.
ChunkerEntry(text, chunk_size, overlap) ==
    [pc |-> "loop", text |-> text, chunk_size |-> chunk_size,
     overlap |-> overlap, chunks |-> <<>>, start |-> 0]

\* One iteration of the while loop, as a function of the frame.
ChunkerIterate(f) ==
    LET end == f.start + f.chunk_size
        chunk == Slice(f.text, f.start, end)
    IN [f EXCEPT !.chunks = Append(f.chunks, chunk),
                 !.start = NextStart(end, f.overlap)]

\* chunk_text as a whole: iterate while start < len(text), return chunks.
RECURSIVE ChunkerRun(_)
ChunkerRun(f) ==
    IF f.start < Len(f.text) THEN ChunkerRun(ChunkerIterate(f)) ELSE f.chunks

chunk_text(text, chunk_size, overlap) ==
    ChunkerRun(ChunkerEntry(text, chunk_size, overlap))

ChunkInit ==
    /\ \E text \in TextsUpTo({"a", "b"}, MaxLen) :
       \E chunk_size \in 1..MaxChunkSize :
       \E overlap \in 0..(chunk_size - 1) :
          chunker = ChunkerEntry(text, chunk_size, overlap)
    /\ quality = Idle
    /\ ingest = Idle
    /\ collection = <<>>
    /\ log = NoLog
    /\ app = Idle

ChunkLoop ==
    /\ chunker.pc = "loop"
    /\ chunker.start < Len(chunker.text)
    /\ chunker' = ChunkerIterate(chunker)
    /\ UNCHANGED <<quality, ingest, collection, app, log>>

ChunkReturn ==
    /\ chunker.pc = "loop"
    /\ ~(chunker.start < Len(chunker.text))
    /\ chunker' = [chunker EXCEPT !.pc = "done"]
    /\ UNCHANGED <<quality, ingest, collection, app, log>>

ChunkNext == ChunkLoop \/ ChunkReturn

SpecChunk == ChunkInit /\ [][ChunkNext]_vars

(***************************************************************************)
(* Claims about chunk_text                                                 *)
(***************************************************************************)
\* The characters of a chunk after its first n.
DropFirst(chunk, n) == SubSeq(chunk, n + 1, Len(chunk))

\* The last n characters of a chunk (the whole chunk when it is shorter).
LastChars(chunk, n) == SubSeq(chunk, Len(chunk) - Min(n, Len(chunk)) + 1, Len(chunk))

\* The first n characters of a chunk (the whole chunk when it is shorter).
FirstChars(chunk, n) == SubSeq(chunk, 1, Min(n, Len(chunk)))

RECURSIVE NonOverlapping(_, _, _)
NonOverlapping(chunks, overlap, k) ==
    IF k > Len(chunks) THEN <<>>
    ELSE (IF k = 1 THEN chunks[1] ELSE DropFirst(chunks[k], overlap))
         \o NonOverlapping(chunks, overlap, k + 1)

\* C7: when chunk_text returns, the first chunk followed by every later chunk
\* without its first `overlap` characters is exactly the text, every chunk is
\* a non-empty piece of the text, and an empty text yields no chunks.
C7_Reconstruct ==
    chunker.pc = "done" =>
        /\ NonOverlapping(chunker.chunks, chunker.overlap, 1) = chunker.text
        /\ (chunker.text = <<>> => chunker.chunks = <<>>)
        /\ (chunker.text # <<>> => chunker.chunks # <<>>)

\* C7 witness: a returned run with at least three chunks and a real overlap.
C7_Witness ==
    /\ chunker.pc = "done"
    /\ Len(chunker.chunks) >= 3
    /\ chunker.overlap >= 1

\* Two consecutive chunks share exactly `overlap` characters.
SharesOverlap(c, d, overlap) ==
    /\ Len(c) >= overlap
    /\ Len(d) >= overlap
    /\ LastChars(c, overlap) = FirstChars(d, overlap)

\* C8 (as stated): every pair of consecutive chunks other than the pair ending
\* with the last chunk shares exactly `overlap` characters, and only the final
\* chunk may be shorter than chunk_size.
C8_Original ==
    chunker.pc = "done" =>
        LET n == Len(chunker.chunks) IN
        /\ \A k \in 1..(n - 2) :
              SharesOverlap(chunker.chunks[k], chunker.chunks[k + 1], chunker.overlap)
        /\ \A k \in 1..(n - 1) : Len(chunker.chunks[k]) = chunker.chunk_size

\* C8 (amended): a chunk of full length chunk_size shares exactly `overlap`
\* characters with its successor; no chunk is longer than chunk_size; the
\* chunks shorter than chunk_size are a trailing run of the sequence, and
\* with overlap 0 that run is at most the final chunk.
C8_Amended ==
    chunker.pc = "done" =>
        LET n == Len(chunker.chunks) IN
        /\ \A k \in 1..(n - 1) :
              Len(chunker.chunks[k]) = chunker.chunk_size =>
                 SharesOverlap(chunker.chunks[k], chunker.chunks[k + 1], chunker.overlap)
        /\ \A k \in 1..n : Len(chunker.chunks[k]) \in 1..chunker.chunk_size
        /\ \A k \in 1..(n - 1) :
              Len(chunker.chunks[k]) < chunker.chunk_size =>
                 /\ Len(chunker.chunks[k + 1]) < chunker.chunk_size
                 /\ chunker.overlap > 0

\* C8 witness: a returned run in which a chunk before the last is short.
C8_Witness ==
    /\ chunker.pc = "done"
    /\ Len(chunker.chunks) >= 3
    /\ Len(chunker.chunks[1]) = chunker.chunk_size
    /\ Len(chunker.chunks[Len(chunker.chunks) - 1]) < chunker.chunk_size

(***************************************************************************)
(* is_useful_chunk (src/ingest.py 58-87)                                   *)
(***************************************************************************)
\* Characters str.strip() removes, str.isdigit() accepts, and the decimal digits.
\* "sup2" stands for the one character U+00B2 (superscript two), a digit for
\* str.isdigit() that is no decimal digit.
Whitespace == {" ", "\n"}
DecimalDigits == {"0", "1", "2", "3", "4", "5", "6", "7", "8", "9"}
isdigit(c) == c \in DecimalDigits \cup {"sup2"}

\* text.strip(): leading and trailing whitespace removed.
RECURSIVE lstrip(_)
lstrip(text) ==
    IF text # <<>> /\ Head(text) \in Whitespace THEN lstrip(Tail(text)) ELSE text

RECURSIVE rstrip(_)
rstrip(text) ==
    IF text # <<>> /\ text[Len(text)] \in Whitespace
    THEN rstrip(SubSeq(text, 1, Len(text) - 1))
    ELSE text

strip(text) == rstrip(lstrip(text))

\* text.count(pat): the non-overlapping occurrences of pat, scanning from the left.
RECURSIVE CountFrom(_, _, _)
CountFrom(text, pat, i) ==
    LET hits == {j \in i..(Len(text) - Len(pat) + 1) :
                    text[j] = pat[1] /\ SubSeq(text, j, j + Len(pat) - 1) = pat}
    IN IF hits = {} THEN 0
       ELSE 1 + CountFrom(text, pat,
                          (CHOOSE j \in hits : \A h \in hits : j <= h) + Len(pat))

count(text, pat) == CountFrom(text, pat, 1)

\* sum(c.isdigit() for c in text)
digit_count(text) == Cardinality({i \in 1..Len(text) : isdigit(text[i])})

\* The substrings the filter looks for.
Bracket == <<"[">>
Vol == <<"v", "o", "l", ".">>
Pp == <<"p", "p", ".">>
No == <<"n", "o", ".">>
DoiColon == <<"d", "o", "i", ":">>
Http == <<"h", "t", "t", "p">>
Doi == <<"d", "o", "i">>

\* The thresholds of the four rules.
MinLength == 200
DensityWindow == 500
MaxDensity == 5
MaxLinks == 3
\* The digit threshold 0.3 as the fraction DigitNum / DigitDen.
DigitNum == 3
DigitDen == 10

citation_indicators(text) ==
    count(text, Bracket) + count(text, Vol) + count(text, Pp)
  + count(text, No) + count(text, DoiColon)

\* Mutant of TooShort: the length test on the text as given, without strip().
TooShortUnstripped(text) == Len(text) < MinLength

\* len(text.strip()) < 200
TooShort(text) == Len(strip(text)) < MinLength

\* citation_indicators / (len(text) / 500) > 5.  Python divides floats; for
\* every length from 200 up and every count the float comparison agrees with
\* the exact one, so the rule is modelled in integers.  len(text) is at least
\* 200 here, so the division cannot fail.
MostlyCitations(text) ==
    citation_indicators(text) * DensityWindow > MaxDensity * Len(text)

\* text.count('http') > 3 or text.count('doi') > 3
LinkDump(text) == count(text, Http) > MaxLinks \/ count(text, Doi) > MaxLinks

\* digit_count / len(text) > 0.3
MostlyDigits(text) == digit_count(text) * DigitDen > DigitNum * Len(text)

\* is_useful_chunk as a whole.
is_useful_chunk(text) ==
    IF TooShort(text) THEN FALSE
    ELSE IF MostlyCitations(text) THEN FALSE
    ELSE IF LinkDump(text) THEN FALSE
    ELSE IF MostlyDigits(text) THEN FALSE
    ELSE TRUE

(***************************************************************************)
(* SpecFilter: is_useful_chunk on texts around every threshold, one rule    *)
(* per step                                                                *)
(***************************************************************************)
\* n copies of the pattern pat, one after the other.
Copies(pat, n) == [i \in 1..(n * Len(pat)) |-> pat[((i - 1) % Len(pat)) + 1]]

\* A text: lead spaces, then citation indicators, links, decimal digits,
\* superscripts and letters up to `target` characters, then trail newlines.
MakeText(lead, indicators, links, digits, sups, target, trail) ==
    LET marked == indicators \o links \o Rep("7", digits) \o Rep("sup2", sups)
    IN Rep(" ", lead) \o marked \o Rep("a", target - Len(marked)) \o Rep("\n", trail)

\* The stripped lengths of the texts: just below and at the minimum length,
\* and one hundred characters above it.
TargetLengths == {MinLength - 1, MinLength, MinLength + DensityWindow \div MaxDensity}

\* The digits of a text of n characters: none, exactly 30% decimal digits,
\* one decimal digit more, and 30% decimal digits plus one superscript.
\* Each is <<decimal digits, superscripts>>.
DigitChoices(n) ==
    LET q == (DigitNum * n) \div DigitDen
    IN {<<0, 0>>, <<q, 0>>, <<q + 1, 0>>, <<q, 1>>}

FilterTexts ==
    UNION {{MakeText(lead, Copies(ind, ni), Copies(link, nl), d[1], d[2], target, trail) :
               ind \in {Bracket, Vol, Pp, No, DoiColon}, ni \in 0..MaxIndicatorCopies,
               link \in {Http, Doi}, nl \in 0..MaxLinkCopies,
               d \in DigitChoices(lead + target + trail)} :
           lead \in 0..MaxPad, trail \in 0..MaxPad, target \in TargetLengths}

FilterInit ==
    /\ \E text \in FilterTexts :
          quality = [pc |-> "length", text |-> text, result |-> "none"]
    /\ chunker = Idle
    /\ ingest = Idle
    /\ collection = <<>>
    /\ log = NoLog
    /\ app = Idle

\* One rule of the filter: return False when it matches, else go on.
FilterRule(at, matches, next) ==
    /\ quality.pc = at
    /\ quality' = IF matches
                  THEN [quality EXCEPT !.pc = "done", !.result = FALSE]
                  ELSE [quality EXCEPT !.pc = next]
    /\ UNCHANGED <<chunker, ingest, collection, app, log>>

FilterLength == FilterRule("length", TooShort(quality.text), "citations")
FilterCitations == FilterRule("citations", MostlyCitations(quality.text), "links")
FilterLinks == FilterRule("links", LinkDump(quality.text), "digits")
FilterDigits == FilterRule("digits", MostlyDigits(quality.text), "return")

FilterReturn ==
    /\ quality.pc = "return"
    /\ quality' = [quality EXCEPT !.pc = "done", !.result = TRUE]
    /\ UNCHANGED <<chunker, ingest, collection, app, log>>

FilterNext ==
    FilterLength \/ FilterCitations \/ FilterLinks \/ FilterDigits \/ FilterReturn

SpecFilter == FilterInit /\ [][FilterNext]_vars

(***************************************************************************)
(* Claims about is_useful_chunk                                            *)
(***************************************************************************)
\* The number of decimal digits of a text.
DecimalCount(text) == Cardinality({i \in 1..Len(text) : text[i] \in DecimalDigits})

\* C9 (as stated): the chunk is rejected exactly when, on the text as given,
\* its length is below 200, or the citation indicators per 500 characters
\* exceed 5, or 'http' or 'doi' occurs more than 3 times, or more than 30%
\* of its characters are decimal digits.
C9_Original ==
    quality.pc = "done" =>
        LET text == quality.text IN
        (quality.result = FALSE) <=>
            \/ Len(text) < MinLength
            \/ citation_indicators(text) * DensityWindow > MaxDensity * Len(text)
            \/ count(text, Http) > MaxLinks
            \/ count(text, Doi) > MaxLinks
            \/ DecimalCount(text) * DigitDen > DigitNum * Len(text)

\* C9 (amended): the chunk is rejected exactly when its length after
\* stripping leading and trailing whitespace is below 200, or, on the text as
\* given, the citation indicators per 500 characters exceed 5, or 'http' or
\* 'doi' occurs more than 3 times, or more than 30% of its characters are
\* digits in the sense of str.isdigit (decimal digits and other digit
\* characters such as superscripts); the decision is a boolean fixed by the text.
C9_Amended ==
    quality.pc = "done" =>
        LET text == quality.text IN
        /\ quality.result \in BOOLEAN
        /\ (quality.result = FALSE) <=>
              \/ Len(strip(text)) < MinLength
              \/ citation_indicators(text) * DensityWindow > MaxDensity * Len(text)
              \/ count(text, Http) > MaxLinks
              \/ count(text, Doi) > MaxLinks
              \/ digit_count(text) * DigitDen > DigitNum * Len(text)

\* C9 witness: a text of 200 or more characters that is rejected only because
\* its stripped length is below 200.
C9_Witness ==
    /\ quality.pc = "done"
    /\ quality.result = FALSE
    /\ Len(quality.text) >= MinLength
    /\ ~MostlyCitations(quality.text)
    /\ ~LinkDump(quality.text)
    /\ ~MostlyDigits(quality.text)

\* A second case of C9: a text accepted with every count at its threshold.
C9_AcceptedAtThresholds ==
    /\ quality.pc = "done"
    /\ quality.result = TRUE
    /\ Len(strip(quality.text)) = MinLength
    /\ count(quality.text, Http) = MaxLinks
    /\ digit_count(quality.text) * DigitDen = DigitNum * Len(quality.text)

(***************************************************************************)
(* extract_structured_data and the extraction button handler (src/app.py)  *)
(*                                                                         *)
(* The reply of the language model is a sequence of tokens: the json       *)
(* fence (three backticks and the word json), the bare fence (three        *)
(* backticks), a line break, a run of prose, or the text of one JSON       *)
(* value.  A JSON value is [type, members]: the keys of an object, the     *)
(* elements of an array, the words a string contains.                      *)
(***************************************************************************)
FourKeys == {"methodology", "materials", "findings", "challenges"}
OtherKeys == {"error", "note"}

Object(keys) == [type |-> "object", members |-> keys]
NoValue == [type |-> "none", members |-> {}]

JsonValues ==
    {Object(keys) : keys \in SUBSET (FourKeys \cup OtherKeys)}
    \cup {[type |-> "string", members |-> {}], [type |-> "string", members |-> {"error"}],
          [type |-> "array", members |-> {}], [type |-> "array", members |-> {"error"}],
          [type |-> "number", members |-> {}], [type |-> "null", members |-> {}]}

FenceJson == [tok |-> "fence_json", value |-> NoValue]
Fence == [tok |-> "fence", value |-> NoValue]
Newline == [tok |-> "\n", value |-> NoValue]
Prose == [tok |-> "prose", value |-> NoValue]
ValueText(v) == [tok |-> "json", value |-> v]

\* The replies of the model: optional prose, an optional opening fence, a
\* JSON value or prose or nothing, an optional closing fence, optional prose.
Replies ==
    {pre \o open \o body \o close \o post :
        pre \in {<<>>, <<Prose, Newline>>},
        open \in {<<>>, <<FenceJson, Newline>>, <<Fence, Newline>>},
        body \in {<<ValueText(v)>> : v \in JsonValues} \cup {<<>>, <<Prose>>},
        close \in {<<>>, <<Newline, Fence>>},
        post \in {<<>>, <<Newline, Prose>>}}

\* the json fence occurs in result
HasFenceJson(result) == \E i \in 1..Len(result) : result[i] = FenceJson

\* result.split(json fence)[1]: what follows the first json fence, up to the next one.
AfterFenceJson(result) ==
    LET at == {i \in 1..Len(result) : result[i] = FenceJson}
        first == CHOOSE i \in at : \A j \in at : i <= j
        later == {i \in at : i > first}
        stop == IF later = {} THEN Len(result) + 1
                ELSE CHOOSE i \in later : \A j \in later : i <= j
    IN SubSeq(result, first + 1, stop - 1)

\* part.split(bare fence)[0]: what precedes the first bare fence; a json fence starts with one.
BeforeFence(part) ==
    LET at == {i \in 1..Len(part) : part[i] \in {Fence, FenceJson}}
    IN IF at = {} THEN part
       ELSE SubSeq(part, 1, (CHOOSE i \in at : \A j \in at : i <= j) - 1)

\* json.loads(result): surrounding whitespace is skipped; the rest must be the
\* text of exactly one JSON value, else the call raises.
Significant(result) == SelectSeq(result, LAMBDA t : t # Newline)
Parseable(result) ==
    /\ Len(Significant(result)) = 1
    /\ Significant(result)[1].tok = "json"
Loads(result) == Significant(result)[1].value

\* {"error": str(e)}
ErrorResult == Object({"error"})

\* "error" in structured: key of a dict, element of a list, substring of a str;
\* a number or None raises TypeError.
SupportsIn(structured) == structured.type \in {"object", "array", "string"}
HasError(structured) == "error" \in structured.members

ExtractInit ==
    /\ \E raises \in BOOLEAN : \E reply \in Replies :
          app = [pc |-> "create", raises |-> raises, reply |-> reply,
                 result |-> <<>>, parsed |-> FALSE, structured |-> NoValue,
                 shown |-> "nothing", defaults |-> {}]
    /\ chunker = Idle
    /\ quality = Idle
    /\ ingest = Idle
    /\ collection = <<>>
    /\ log = NoLog

\* Lines 50-57 and 64-65: the completion call raises, or returns the reply.
ExtractCreate ==
    /\ app.pc = "create"
    /\ app' = IF app.raises
              THEN [app EXCEPT !.pc = "handler", !.structured = ErrorResult]
              ELSE [app EXCEPT !.pc = "clean", !.result = app.reply]
    /\ UNCHANGED <<chunker, quality, ingest, collection, log>>

\* Lines 59-60: the markdown fence is removed when the json fence is present.
ExtractClean ==
    /\ app.pc = "clean"
    /\ app' = IF HasFenceJson(app.result)
              THEN [app EXCEPT !.pc = "loads",
                               !.result = BeforeFence(AfterFenceJson(app.result))]
              ELSE [app EXCEPT !.pc = "loads"]
    /\ UNCHANGED <<chunker, quality, ingest, collection, log>>

\* Lines 62 and 64-65: json.loads returns the value, or raises and the
\* exception handler returns the error dictionary.
ExtractLoads ==
    /\ app.pc = "loads"
    /\ app' = IF Parseable(app.result)
              THEN [app EXCEPT !.pc = "handler", !.parsed = TRUE,
                               !.structured = Loads(app.result)]
              ELSE [app EXCEPT !.pc = "handler", !.structured = ErrorResult]
    /\ UNCHANGED <<chunker, quality, ingest, collection, log>>

\* Line 152: if "error" not in structured.
HandlerTest ==
    /\ app.pc = "handler"
    /\ app' = IF ~SupportsIn(app.structured)
              THEN [app EXCEPT !.pc = "done", !.shown = "exception"]
              ELSE IF ~HasError(app.structured)
              THEN [app EXCEPT !.pc = "fields"]
              ELSE [app EXCEPT !.pc = "error"]
    /\ UNCHANGED <<chunker, quality, ingest, collection, log>>

\* Lines 153-168: structured.get(key, 'N/A') for the four keys; only a dict has get.
HandlerFields ==
    /\ app.pc = "fields"
    /\ app' = IF app.structured.type = "object"
              THEN [app EXCEPT !.pc = "done", !.shown = "fields",
                               !.defaults = FourKeys \ app.structured.members]
              ELSE [app EXCEPT !.pc = "done", !.shown = "exception"]
    /\ UNCHANGED <<chunker, quality, ingest, collection, log>>

\* Line 170: st.error(structured['error']); only a dict can be indexed by a key.
HandlerError ==
    /\ app.pc = "error"
    /\ app' = IF app.structured.type = "object"
              THEN [app EXCEPT !.pc = "done", !.shown = "failed"]
              ELSE [app EXCEPT !.pc = "done", !.shown = "exception"]
    /\ UNCHANGED <<chunker, quality, ingest, collection, log>>

ExtractNext ==
    \/ ExtractCreate
    \/ ExtractClean
    \/ ExtractLoads
    \/ HandlerTest
    \/ HandlerFields
    \/ HandlerError

SpecExtract == ExtractInit /\ [][ExtractNext]_vars

(***************************************************************************)
(* Claims about the structured extraction                                  *)
(***************************************************************************)
\* C3: when the handler is done, a call that raised or a reply that did not
\* parse is shown as a failure, never as fields or default values, and a
\* reply that parsed is never shown as a failure.
C3_FailureDistinct ==
    app.pc = "done" =>
        /\ (~app.parsed => app.shown = "failed")
        /\ (app.parsed => app.shown # "failed")

\* C4: every successful result is an object with exactly the four keys.
C4_ExactlyFourKeys ==
    (app.pc \in {"handler", "fields", "error", "done"} /\ app.parsed) =>
        /\ app.structured.type = "object"
        /\ app.structured.members = FourKeys

(***************************************************************************)
(* ingest_pdfs (src/ingest.py 89-156) and extract_text_from_pdf (29-43)    *)
(*                                                                         *)
(* A PDF file is [stem, pages, corrupt]: pages names what page.get_text()  *)
(* returns for each page, corrupt says that opening or reading it raises.  *)
(***************************************************************************)
batch_size == 100

\* page.get_text() of the four kinds of page: no text; prose one character
\* longer than the chunk stride, inside whitespace; a note of minimum length;
\* references of minimum length with three citation indicators.
get_text(page) ==
    CASE page = "blank" -> <<" ", "\n">>
      [] page = "prose" ->
            <<" ">> \o Rep("a", DefaultChunkSize - DefaultOverlap + 1) \o <<"\n">>
      [] page = "note" -> Rep("a", MinLength)
      [] page = "refs" -> <<"[", "1", "]", "[", "2", "]", "[">> \o Rep("a", MinLength - 7)

\* extract_text_from_pdf: the stripped text of every page that has text, with
\* its 1-based page number.
RECURSIVE PagesFrom(_, _)
PagesFrom(pages, page_num) ==
    IF page_num > Len(pages) THEN <<>>
    ELSE LET text == get_text(pages[page_num])
         IN (IF strip(text) # <<>>
             THEN <<[page_num |-> page_num, text |-> strip(text)]>>
             ELSE <<>>)
            \o PagesFrom(pages, page_num + 1)

extract_text_from_pdf(pdf_path) == PagesFrom(pdf_path.pages, 1)

\* str(n) for n >= 0: the decimal digits of n.
DigitChar(d) == <<"0", "1", "2", "3", "4", "5", "6", "7", "8", "9">>[d + 1]
RECURSIVE Decimal(_)
Decimal(n) ==
    IF n < 10 THEN <<DigitChar(n)>> ELSE Decimal(n \div 10) \o <<DigitChar(n % 10)>>

\* Mutant of IdPrefix: the id starts with the index of the file in the listing.
IdPrefixIndex(idx, pdf_path) == Decimal(idx)

\* pdf_path.stem, the start of every id of the file
IdPrefix(idx, pdf_path) == pdf_path.stem

\* Mutant of doc_id: the page number is left out.
DocIdNoPage(prefix, page_num, chunk_idx) ==
    prefix \o <<"_", "c">> \o Decimal(chunk_idx)

\* f"{pdf_path.stem}_p{page_data['page_num']}_c{chunk_idx}"
doc_id(prefix, page_num, chunk_idx) ==
    prefix \o <<"_", "p">> \o Decimal(page_num) \o <<"_", "c">> \o Decimal(chunk_idx)

\* pdf_path.name
FileName(pdf_path) == pdf_path.stem \o <<".", "p", "d", "f">>

\* The stem of the k-th file of the directory: a, a_p1_c0, a_p1_c0_p1_c0, ...
\* (each is an id of the file before it).
RECURSIVE StemAt(_)
StemAt(k) == IF k = 1 THEN <<"a">> ELSE doc_id(StemAt(k - 1), 1, 0)

\* The page lists of the files, and the files: readable ones, and a corrupt one.
PageLists ==
    {<<>>, <<"note">>, <<"blank", "prose">>, <<"prose", "note">>, <<"refs", "note">>}
Contents ==
    {[pages |-> pl, corrupt |-> FALSE] : pl \in PageLists}
    \cup {[pages |-> <<"note">>, corrupt |-> TRUE]}

\* The listings of a directory of n files.
Directories(n) ==
    {[k \in 1..n |-> [stem |-> StemAt(k), pages |-> c[k].pages, corrupt |-> c[k].corrupt]] :
        c \in [1..n -> Contents]}

\* The frame of ingest_pdfs on entry, pdf_files being the listing of the directory.
IngestEntry(pdf_files) ==
    [pc |-> "file", pdf_files |-> pdf_files, idx |-> 0,
     documents |-> <<>>, metadatas |-> <<>>, ids |-> <<>>,
     total_chunks |-> 0, filtered_chunks |-> 0,
     pages |-> <<>>, page |-> 0, chunks |-> <<>>, chunk_idx |-> 0, i |-> 0]

\* collection.add(documents, metadatas, ids) with upsert-by-id semantics:
\* every id of the batch maps to its document and metadata (the last entry of
\* the batch with that id), every other id keeps what it had.
Upsert(stored, batch_docs, batch_meta, batch_ids) ==
    LET new == {batch_ids[k] : k \in 1..Len(batch_ids)}
        last(id) == CHOOSE k \in 1..Len(batch_ids) :
                       /\ batch_ids[k] = id
                       /\ \A j \in 1..Len(batch_ids) : batch_ids[j] = id => j <= k
    IN [id \in (DOMAIN stored) \cup new |->
           IF id \in new
           THEN [document |-> batch_docs[last(id)], metadata |-> batch_meta[last(id)]]
           ELSE stored[id]]

\* Mutant of AfterError: a failing document ends the loop.
AfterErrorBreak(idx, n) == n

\* except Exception: ... continue -- the loop goes on with the next file
AfterError(idx, n) == idx + 1

\* Mutant of CountFiltered: the rejected chunk is not counted.
CountFilteredNot(filtered_chunks) == filtered_chunks

\* filtered_chunks += 1
CountFiltered(filtered_chunks) == filtered_chunks + 1

\* Mutant of BatchEnd: the slice is one entry short.
BatchEndShort(i) == i + batch_size - 1

\* The end of the slices documents[i:i+batch_size], metadatas[...], ids[...]
BatchEnd(i) == i + batch_size

\* The file, the page and the chunk the loops are at.
CurrentFile == ingest.pdf_files[ingest.idx + 1]
CurrentPage == ingest.pages[ingest.page + 1]
CurrentChunk == ingest.chunks[ingest.chunk_idx + 1]

Reverse(seq) == [k \in 1..Len(seq) |-> seq[Len(seq) + 1 - k]]

IngestInit ==
    /\ \E n \in 0..MaxDocs : \E pdf_files \in Directories(n) :
          ingest = IngestEntry(pdf_files)
    /\ collection = <<>>
    /\ log = NoLog
    /\ chunker = Idle
    /\ quality = Idle
    /\ app = Idle

\* Lines 103-107: the next file is opened and its pages are extracted.
IngestExtract ==
    /\ ingest.pc = "file"
    /\ ingest.idx < Len(ingest.pdf_files)
    /\ ~CurrentFile.corrupt
    /\ ingest' = [ingest EXCEPT !.pc = "page", !.page = 0,
                                !.pages = extract_text_from_pdf(CurrentFile)]
    /\ UNCHANGED <<chunker, quality, collection, app, log>>

\* Lines 107 and 133-135: extraction raises; the error is printed and the
\* loop continues.
IngestError ==
    /\ ingest.pc = "file"
    /\ ingest.idx < Len(ingest.pdf_files)
    /\ CurrentFile.corrupt
    /\ ingest' = [ingest EXCEPT !.idx = AfterError(ingest.idx, Len(ingest.pdf_files))]
    /\ UNCHANGED <<chunker, quality, collection, app, log>>

\* Lines 109-111: the next page is chunked with the default parameters.
IngestChunkPage ==
    /\ ingest.pc = "page"
    /\ ingest.page < Len(ingest.pages)
    /\ ingest' = [ingest EXCEPT !.pc = "chunk", !.chunk_idx = 0,
                     !.chunks = chunk_text(CurrentPage.text, DefaultChunkSize, DefaultOverlap)]
    /\ UNCHANGED <<chunker, quality, collection, app, log>>

\* Line 131: the pages are exhausted; on to the next file.
IngestNextFile ==
    /\ ingest.pc = "page"
    /\ ~(ingest.page < Len(ingest.pages))
    /\ ingest' = [ingest EXCEPT !.pc = "file", !.idx = ingest.idx + 1]
    /\ UNCHANGED <<chunker, quality, collection, app, log>>

\* Lines 113-114: total_chunks += 1 for the next chunk.
IngestCount ==
    /\ ingest.pc = "chunk"
    /\ ingest.chunk_idx < Len(ingest.chunks)
    /\ ingest' = [ingest EXCEPT !.pc = "filter", !.total_chunks = ingest.total_chunks + 1]
    /\ UNCHANGED <<chunker, quality, collection, app, log>>

\* Line 113: the chunks are exhausted; on to the next page.
IngestNextPage ==
    /\ ingest.pc = "chunk"
    /\ ~(ingest.chunk_idx < Len(ingest.chunks))
    /\ ingest' = [ingest EXCEPT !.pc = "page", !.page = ingest.page + 1]
    /\ UNCHANGED <<chunker, quality, collection, app, log>>

\* Lines 117-119: a chunk that is not useful is counted and skipped.
IngestFilter ==
    /\ ingest.pc = "filter"
    /\ ~is_useful_chunk(CurrentChunk)
    /\ ingest' = [ingest EXCEPT !.pc = "chunk", !.chunk_idx = ingest.chunk_idx + 1,
                     !.filtered_chunks = CountFiltered(ingest.filtered_chunks)]
    /\ UNCHANGED <<chunker, quality, collection, app, log>>

\* Lines 117-123: a useful chunk is appended to documents.
IngestKeep ==
    /\ ingest.pc = "filter"
    /\ is_useful_chunk(CurrentChunk)
    /\ ingest' = [ingest EXCEPT !.pc = "metadata",
                     !.documents = Append(ingest.documents, CurrentChunk)]
    /\ UNCHANGED <<chunker, quality, collection, app, log>>

\* Lines 124-128: its metadata is appended to metadatas.
IngestMetadata ==
    /\ ingest.pc = "metadata"
    /\ ingest' = [ingest EXCEPT !.pc = "id",
                     !.metadatas = Append(ingest.metadatas,
                         [source |-> FileName(CurrentFile),
                          page |-> CurrentPage.page_num,
                          chunk |-> ingest.chunk_idx])]
    /\ UNCHANGED <<chunker, quality, collection, app, log>>

\* Lines 121 and 129: its id is appended to ids.
IngestId ==
    /\ ingest.pc = "id"
    /\ ingest' = [ingest EXCEPT !.pc = "chunk", !.chunk_idx = ingest.chunk_idx + 1,
                     !.ids = Append(ingest.ids,
                         doc_id(IdPrefix(ingest.idx, CurrentFile),
                                CurrentPage.page_num, ingest.chunk_idx))]
    /\ UNCHANGED <<chunker, quality, collection, app, log>>

\* Lines 137-144: the files are exhausted; the statistics are printed and the
\* batch loop starts.
IngestStats ==
    /\ ingest.pc = "file"
    /\ ~(ingest.idx < Len(ingest.pdf_files))
    /\ ingest' = [ingest EXCEPT !.pc = "flush", !.i = 0]
    /\ UNCHANGED <<chunker, quality, collection, app, log>>

\* Lines 144-154: the next batch is added to the collection.
AddBatch ==
    /\ ingest.pc = "flush"
    /\ ingest.i < Len(ingest.documents)
    /\ LET batch_docs == Slice(ingest.documents, ingest.i, BatchEnd(ingest.i))
           batch_meta == Slice(ingest.metadatas, ingest.i, BatchEnd(ingest.i))
           batch_ids == Slice(ingest.ids, ingest.i, BatchEnd(ingest.i))
       IN /\ collection' = Upsert(collection, batch_docs, batch_meta, batch_ids)
          /\ log' = [log EXCEPT !.batches = Append(log.batches, batch_ids)]
    /\ ingest' = [ingest EXCEPT !.i = ingest.i + batch_size]
    /\ UNCHANGED <<chunker, quality, app>>

\* Lines 149-153: collection.add raises; nothing catches it and the run ends.
AddRaises ==
    /\ ingest.pc = "flush"
    /\ ingest.i < Len(ingest.documents)
    /\ ingest' = [ingest EXCEPT !.pc = "aborted"]
    /\ UNCHANGED <<chunker, quality, collection, app, log>>

\* Lines 144 and 156: the batches are exhausted; the run is complete.
IngestComplete ==
    /\ ingest.pc = "flush"
    /\ ~(ingest.i < Len(ingest.documents))
    /\ ingest' = [ingest EXCEPT !.pc = "done"]
    /\ log' = [log EXCEPT !.runs = Append(log.runs,
                              [ids |-> ingest.ids, stored |-> collection])]
    /\ UNCHANGED <<chunker, quality, collection, app>>

\* Lines 158-159: ingestion is run again on the unchanged directory, whose
\* listing comes in the same order or in the opposite one.
Rerun ==
    /\ ingest.pc = "done"
    /\ Len(log.runs) < MaxRuns
    /\ \E pdf_files \in {ingest.pdf_files, Reverse(ingest.pdf_files)} :
          ingest' = IngestEntry(pdf_files)
    /\ log' = [log EXCEPT !.batches = <<>>]
    /\ UNCHANGED <<chunker, quality, collection, app>>

IngestNext ==
    \/ IngestExtract
    \/ IngestError
    \/ IngestChunkPage
    \/ IngestNextFile
    \/ IngestCount
    \/ IngestNextPage
    \/ IngestFilter
    \/ IngestKeep
    \/ IngestMetadata
    \/ IngestId
    \/ IngestStats
    \/ AddBatch
    \/ AddRaises
    \/ IngestComplete
    \/ Rerun

SpecIngest == IngestInit /\ [][IngestNext]_vars

(***************************************************************************)
(* What a run should keep, computed from the directory alone               *)
(***************************************************************************)
RECURSIVE Flatten(_)
Flatten(seqs) == IF seqs = <<>> THEN <<>> ELSE Head(seqs) \o Flatten(Tail(seqs))

\* The useful chunks of one extracted page, each with its metadata and id.
KeptOfPage(pdf_path, page_data) ==
    LET chunks == chunk_text(page_data.text, DefaultChunkSize, DefaultOverlap)
        all == [k \in 1..Len(chunks) |->
                  [document |-> chunks[k],
                   metadata |-> [source |-> FileName(pdf_path),
                                 page |-> page_data.page_num, chunk |-> k - 1],
                   id |-> doc_id(pdf_path.stem, page_data.page_num, k - 1)]]
    IN SelectSeq(all, LAMBDA e : is_useful_chunk(e.document))

\* The useful chunks of one file: none when it is corrupt.
KeptOfFile(pdf_path) ==
    IF pdf_path.corrupt THEN <<>>
    ELSE LET pages == extract_text_from_pdf(pdf_path)
         IN Flatten([k \in 1..Len(pages) |-> KeptOfPage(pdf_path, pages[k])])

\* The useful chunks of the files that did not fail, in the order of the listing.
Kept(pdf_files) == Flatten([k \in 1..Len(pdf_files) |-> KeptOfFile(pdf_files[k])])

Range(seq) == {seq[k] : k \in 1..Len(seq)}

(***************************************************************************)
(* SpecFlush: the batch loop on its own, entered with up to MaxBatches     *)
(* full batches and one more chunk, in the state the file loop leaves      *)
(* after one file of that many pages of one useful chunk each              *)
(***************************************************************************)
FlushInit ==
    /\ \E n \in 0..(MaxBatches * batch_size + 1) :
       \E pdf_path \in {[stem |-> StemAt(1), pages |-> Rep("note", n), corrupt |-> FALSE]} :
       \E text \in {strip(get_text("note"))} :
          /\ chunk_text(text, DefaultChunkSize, DefaultOverlap) = <<text>>
          /\ is_useful_chunk(text)
          /\ ingest = [IngestEntry(<<pdf_path>>) EXCEPT
                          !.pc = "flush", !.idx = 1,
                          !.pages = [k \in 1..n |-> [page_num |-> k, text |-> text]],
                          !.page = n,
                          !.chunks = IF n = 0 THEN <<>> ELSE <<text>>,
                          !.chunk_idx = IF n = 0 THEN 0 ELSE 1,
                          !.total_chunks = n,
                          !.documents = [k \in 1..n |-> text],
                          !.metadatas = [k \in 1..n |->
                              [source |-> FileName(pdf_path), page |-> k, chunk |-> 0]],
                          !.ids = [k \in 1..n |-> doc_id(IdPrefix(0, pdf_path), k, 0)]]
    /\ collection = <<>>
    /\ log = NoLog
    /\ chunker = Idle
    /\ quality = Idle
    /\ app = Idle

FlushNext == AddBatch \/ AddRaises \/ IngestComplete

SpecFlush == FlushInit /\ [][FlushNext]_vars

(***************************************************************************)
(* Claims about ingest_pdfs                                                *)
(***************************************************************************)
\* C1: once the file loop has ended, the pending documents, metadatas and ids
\* are exactly the useful chunks of the files whose extraction did not raise,
\* in order; a file that raised contributes nothing and the files after it
\* are processed; a completed run has handed exactly these ids to the store.
C1_FailuresSkipped ==
    ingest.pc \in {"flush", "aborted", "done"} =>
        \A kept \in {Kept(ingest.pdf_files)} :
        /\ ingest.documents = [k \in 1..Len(kept) |-> kept[k].document]
        /\ ingest.metadatas = [k \in 1..Len(kept) |-> kept[k].metadata]
        /\ ingest.ids = [k \in 1..Len(kept) |-> kept[k].id]
        /\ (ingest.pc = "done" =>
               /\ Flatten(log.batches) = [k \in 1..Len(kept) |-> kept[k].id]
               /\ \A k \in 1..Len(kept) :
                     /\ kept[k].id \in DOMAIN collection
                     /\ collection[kept[k].id].document = kept[k].document)

\* C1 witness: a completed run over a corrupt file followed by a file with
\* useful chunks.
C1_Witness ==
    /\ ingest.pc = "done"
    /\ Len(ingest.pdf_files) = 2
    /\ ingest.pdf_files[1].corrupt
    /\ ~ingest.pdf_files[2].corrupt
    /\ Len(ingest.ids) >= 2

\* The chunks committed so far: those of the batches before offset i.
Committed == Min(ingest.i, Len(ingest.ids))

\* C2: the batches handed to the store are consecutive slices of the kept
\* chunks of at most 100 entries each, a completed run has handed over every
\* kept chunk exactly once, and every chunk of a batch already added is in
\* the store with its document and metadata, also after a later add has raised.
C2_Batches ==
    ingest.pc \in {"flush", "aborted", "done"} =>
        /\ Flatten(log.batches) = SubSeq(ingest.ids, 1, Committed)
        /\ \A b \in 1..Len(log.batches) : Len(log.batches[b]) \in 1..batch_size
        /\ \A b \in 1..(Len(log.batches) - 1) : Len(log.batches[b]) = batch_size
        /\ (ingest.pc = "done" => Committed = Len(ingest.ids))
        /\ \A k \in 1..Committed :
              /\ ingest.ids[k] \in DOMAIN collection
              /\ collection[ingest.ids[k]] =
                    [document |-> ingest.documents[k], metadata |-> ingest.metadatas[k]]

\* C2 witness: the add of the third batch raised after two batches were added.
C2_Witness ==
    /\ ingest.pc = "aborted"
    /\ Len(log.batches) = 2
    /\ Len(ingest.ids) > 2 * batch_size

\* C5: any two completed runs on the unchanged directory produced the same
\* set of ids and left the same collection.
C5_Idempotent ==
    \A r \in 1..Len(log.runs) : \A q \in 1..Len(log.runs) :
        /\ Range(log.runs[r].ids) = Range(log.runs[q].ids)
        /\ log.runs[r].stored = log.runs[q].stored

\* C5 witness: two completed runs that listed the files in different orders
\* and kept chunks of more than one file.
C5_Witness ==
    /\ Len(log.runs) = 2
    /\ log.runs[1].ids # log.runs[2].ids
    /\ Len(log.runs[1].ids) >= 2

FileNamed(source) ==
    CHOOSE f \in Range(ingest.pdf_files) : FileName(f) = source

\* Entry k of documents, metadatas and ids describes one chunk: the metadata
\* names a file, a page and a chunk index, the document is that chunk of that
\* page and the id is the one derived from the three.
SameChunk(k) ==
    LET meta == ingest.metadatas[k]
        pdf_path == FileNamed(meta.source)
        text == strip(get_text(pdf_path.pages[meta.page]))
    IN /\ \E f \in Range(ingest.pdf_files) : FileName(f) = meta.source
       /\ ingest.documents[k] =
             chunk_text(text, DefaultChunkSize, DefaultOverlap)[meta.chunk + 1]
       /\ ingest.ids[k] = doc_id(pdf_path.stem, meta.page, meta.chunk)

\* C10: whenever no chunk is between its count and its filing,
\* total_chunks = filtered_chunks + the number of kept chunks, the three
\* pending lists have one length and entry k of each describes the same chunk.
C10_Counts ==
    ingest.pc \in {"file", "page", "chunk", "flush", "aborted", "done"} =>
        /\ ingest.total_chunks = ingest.filtered_chunks + Len(ingest.documents)
        /\ Len(ingest.metadatas) = Len(ingest.documents)
        /\ Len(ingest.ids) = Len(ingest.documents)
        /\ \A k \in 1..Len(ingest.documents) : SameChunk(k)

\* C10 witness: the loop stands right after a document failure, with chunks
\* kept and chunks filtered before it.
C10_Witness ==
    /\ ingest.pc = "file"
    /\ ingest.idx = 2
    /\ ingest.pdf_files[2].corrupt
    /\ ingest.filtered_chunks >= 1
    /\ Len(ingest.documents) >= 1

====
